---- MODULE Spec2Model ----
(***************************************************************************)
(* Model of src/features/file_download_feature.py: the output-pattern      *)
(* resolution (find_matching_files), the staging of resolved files         *)
(* (_ScriptHandler._prepare_downloadable_files), the line-buffering        *)
(* InlineImageListener and the FileDownloadFeature registry.               *)
(*                                                                         *)
(* Python strings are sequences of one-character strings, so that find,    *)
(* rfind, slicing, startswith and the regular-expression search are        *)
(* computed on characters. Python indexes are 0-based: Find and RFind      *)
(* return Python's index (and -1 for "not found"); TLA+ sequences are      *)
(* 1-based.                                                                *)
(***************************************************************************)
EXTENDS Integers, Sequences, FiniteSets, TLC

(***************************************************************************)
(* Python str operations                                                   *)
(***************************************************************************)

\* a slice bound as Python reads it: a negative one counts from the end, and
\* the result is clipped to 0..len(s)
SliceBound(s, i) ==
    LET j == IF i < 0 THEN i + Len(s) ELSE i
    IN  IF j < 0 THEN 0 ELSE IF j > Len(s) THEN Len(s) ELSE j

\* s[a:b] with 0-based a, b
Slice(s, a, b) ==
    IF SliceBound(s, b) <= SliceBound(s, a) THEN <<>>
    ELSE SubSeq(s, SliceBound(s, a) + 1, SliceBound(s, b))

\* s[a:]
SliceFrom(s, a) == Slice(s, a, Len(s))

\* s.startswith(prefix, at) with 0-based at
StartsWithAt(s, prefix, at) ==
    /\ at >= 0
    /\ at + Len(prefix) <= Len(s)
    /\ \A k \in 1..Len(prefix) : s[at + k] = prefix[k]

\* s.find(c, from): the lowest 0-based index >= from holding character c, or -1
Find(s, c, from) ==
    LET hits == {i \in 0..(Len(s) - 1) : i >= from /\ s[i + 1] = c}
    IN  IF hits = {} THEN -1 ELSE CHOOSE i \in hits : \A j \in hits : i <= j

\* s.rfind(c): the highest 0-based index holding character c, or -1
RFind(s, c) ==
    LET hits == {i \in 0..(Len(s) - 1) : s[i + 1] = c}
    IN  IF hits = {} THEN -1 ELSE CHOOSE i \in hits : \A j \in hits : i >= j

\* c in s
Contains(s, c) == \E i \in 1..Len(s) : s[i] = c

\* sub in s
ContainsSub(s, sub) == \E at \in 0..Len(s) : StartsWithAt(s, sub, at)

\* ''.join(list)
RECURSIVE Join(_)
Join(list) == IF list = <<>> THEN <<>> ELSE Head(list) \o Join(Tail(list))

(***************************************************************************)
(* Python's re, for the subset of regular expressions the model's          *)
(* declarations use: a sequence of atoms (a literal character, '.', or the *)
(* expansion of the #any_path macro), each with an optional greedy         *)
(* quantifier '+', '*' or '?', and capture groups '(...)' around atoms: no *)
(* group inside a group and no quantifier on a group, but for the three    *)
(* groups of the #any_path expansion.                                      *)
(***************************************************************************)

Quantifiers == {"+", "*", "?"}

\* the text '(' + separator + '([\w.\-]|(\\\ ))+)+' that line 271 puts in
\* place of '#any_path', kept as one atom of the regular expression
ANY_PATH_REGEX == "(/([\\w.\\-]|(\\\\ ))+)+"

\* \w
WordChars ==
    {"a", "b", "c", "d", "e", "f", "g", "h", "i", "j", "k", "l", "m",
     "n", "o", "p", "q", "r", "s", "t", "u", "v", "w", "x", "y", "z",
     "0", "1", "2", "3", "4", "5", "6", "7", "8", "9", "_"}

\* every ')' closes the '(' before it and every '(' is closed
\* ("unbalanced parenthesis", "missing ), unterminated subpattern")
RECURSIVE ParensBalanced(_, _)
ParensBalanced(re, open) ==
    IF re = <<>> THEN ~open
    ELSE IF re[1] = "(" THEN ParensBalanced(Tail(re), TRUE)
    ELSE IF re[1] = ")" THEN open /\ ParensBalanced(Tail(re), FALSE)
    ELSE ParensBalanced(Tail(re), open)

\* re.compile accepts the body: no quantifier without an atom before it
\* ("nothing to repeat"), none right after another ("multiple repeat"),
\* none on the #any_path expansion (which ends in a quantifier itself),
\* and the parentheses balanced
ValidRegex(re) ==
    /\ \A i \in 1..Len(re) :
          re[i] \in Quantifiers =>
              /\ i > 1
              /\ re[i - 1] \notin Quantifiers
              /\ re[i - 1] # ANY_PATH_REGEX
              /\ re[i - 1] # "("
    /\ ParensBalanced(re, FALSE)

\* the atoms of a valid body, each with its quantifier ("1": none); the
\* parentheses of a group are no atoms
RECURSIVE RegexAtoms(_)
RegexAtoms(re) ==
    IF re = <<>> THEN <<>>
    ELSE IF re[1] \in {"(", ")"} THEN RegexAtoms(Tail(re))
    ELSE IF Len(re) >= 2 /\ re[2] \in Quantifiers
         THEN <<[ch |-> re[1], q |-> re[2]]>> \o RegexAtoms(SliceFrom(re, 2))
         ELSE <<[ch |-> re[1], q |-> "1"]>> \o RegexAtoms(SliceFrom(re, 1))

\* one character against a one-character atom; '.' matches all but a newline
CharMatches(ch, c) == IF ch = "." THEN c # "\n" ELSE c = ch

\* ([\w.\-]|(\\ ))+ matches the whole of s
RECURSIVE IsSegmentBody(_)
IsSegmentBody(s) ==
    /\ s # <<>>
    /\ \/ /\ s[1] \in WordChars \cup {".", "-"}
          /\ (Len(s) = 1 \/ IsSegmentBody(Tail(s)))
       \/ /\ Len(s) >= 2
          /\ s[1] = "\\"
          /\ s[2] = " "
          /\ (Len(s) = 2 \/ IsSegmentBody(SliceFrom(s, 2)))

\* (separator([\w.\-]|(\\ ))+)+ matches the whole of s
RECURSIVE IsAnyPath(_)
IsAnyPath(s) ==
    /\ Len(s) >= 2
    /\ s[1] = "/"
    /\ \E k \in 2..Len(s) :
          /\ IsSegmentBody(SubSeq(s, 2, k))
          /\ (k = Len(s) \/ IsAnyPath(SliceFrom(s, k)))

\* the longest run of characters from position p (1-based) the atom matches
RECURSIVE MaxRun(_, _, _)
MaxRun(ch, t, p) ==
    IF p <= Len(t) /\ CharMatches(ch, t[p]) THEN 1 + MaxRun(ch, t, p + 1) ELSE 0

\* hi, hi - 1, ..., lo
RECURSIVE Descending(_, _)
Descending(hi, lo) == IF hi < lo THEN <<>> ELSE <<hi>> \o Descending(hi - 1, lo)

\* the members of a set of integers, highest first
RECURSIVE DescendingSet(_)
DescendingSet(S) ==
    IF S = {} THEN <<>>
    ELSE LET m == CHOOSE x \in S : \A y \in S : x >= y
         IN  <<m>> \o DescendingSet(S \ {m})

\* the positions at which one atom started at p may end (1-based, exclusive),
\* in the order the backtracking matcher tries them: greedy, longest first
AtomEnds(atom, t, p) ==
    IF atom.ch = ANY_PATH_REGEX
    THEN DescendingSet({e \in (p + 2)..(Len(t) + 1) : IsAnyPath(SubSeq(t, p, e - 1))})
    ELSE LET run == MaxRun(atom.ch, t, p)
         IN  CASE atom.q = "1" -> IF run >= 1 THEN <<p + 1>> ELSE <<>>
               [] atom.q = "+" -> Descending(p + run, p + 1)
               [] atom.q = "*" -> Descending(p + run, p)
               [] atom.q = "?" -> IF run >= 1 THEN <<p + 1, p>> ELSE <<p>>

\* the end of the first match of atoms[k..] at p the matcher finds; 0: none
RECURSIVE MatchEnd(_, _, _, _)
RECURSIVE FirstEnd(_, _, _, _)
MatchEnd(atoms, k, t, p) ==
    IF k > Len(atoms) THEN p ELSE FirstEnd(atoms, k, t, AtomEnds(atoms[k], t, p))

FirstEnd(atoms, k, t, ends) ==
    IF ends = <<>> THEN 0
    ELSE LET r == MatchEnd(atoms, k + 1, t, Head(ends))
         IN  IF r # 0 THEN r ELSE FirstEnd(atoms, k, t, Tail(ends))

\* re.finditer: the non-overlapping matches, left to right, each <<start, end>>
\* (1-based, end exclusive). After an empty match the scanner must advance:
\* an empty match is not reported twice at one position.
RECURSIVE Scan(_, _, _, _)
Scan(atoms, t, p, must_advance) ==
    IF p > Len(t) + 1 THEN <<>>
    ELSE LET e == MatchEnd(atoms, 1, t, p)
         IN  IF e = 0 \/ (must_advance /\ e = p)
             THEN Scan(atoms, t, p + 1, FALSE)
             ELSE <<<<p, e>>>> \o Scan(atoms, t, e, e = p)

FindIter(re, t) == Scan(RegexAtoms(re), t, 1, FALSE)

\* the capture groups of a valid body, in the order of their '(': each the
\* atoms it holds (first, last; last = first - 1: none) and, for a group of
\* the #any_path expansion, which of its three it is (inner; 0: a group of
\* the body itself). n is the number of atoms before re.
RECURSIVE RegexGroups(_, _)
RegexGroups(re, n) ==
    IF re = <<>> THEN <<>>
    ELSE IF re[1] = "("
    THEN LET close == Find(re, ")", 0)
             held == Len(RegexAtoms(Slice(re, 1, close)))
         IN  <<[first |-> n + 1, last |-> n + held, inner |-> 0]>>
             \o RegexGroups(SliceFrom(re, close + 1), n + held)
    ELSE IF re[1] = ANY_PATH_REGEX
    THEN [j \in 1..3 |-> [first |-> n + 1, last |-> n + 1, inner |-> j]]
         \o RegexGroups(Tail(re), n + 1)
    ELSE IF re[1] \in Quantifiers THEN RegexGroups(Tail(re), n)
    ELSE RegexGroups(Tail(re), n + 1)

\* where each atom of atoms[k..] ends in the match at p that MatchEnd finds
RECURSIVE MatchPath(_, _, _, _)
RECURSIVE FirstPath(_, _, _, _)
MatchPath(atoms, k, t, p) ==
    IF k > Len(atoms) THEN <<>> ELSE FirstPath(atoms, k, t, AtomEnds(atoms[k], t, p))

FirstPath(atoms, k, t, ends) ==
    IF MatchEnd(atoms, k + 1, t, Head(ends)) # 0
    THEN <<Head(ends)>> \o MatchPath(atoms, k + 1, t, Head(ends))
    ELSE FirstPath(atoms, k, t, Tail(ends))

\* what a group of the #any_path expansion holds after it matched s: the
\* last '/segment' (1), the last character or escaped space of it (2), the
\* last escaped space of s (3, NoGroup when s has none)
NoGroup == <<"None">>

AnyPathGroup(s, inner) ==
    LET escaped == Len(s) >= 2 /\ s[Len(s) - 1] = "\\" /\ s[Len(s)] = " "
    IN  CASE inner = 1 -> SliceFrom(s, RFind(s, "/"))
          [] inner = 2 -> IF escaped THEN <<"\\", " ">> ELSE <<s[Len(s)]>>
          [] inner = 3 -> IF ContainsSub(s, <<"\\", " ">>) THEN <<"\\", " ">> ELSE NoGroup

\* match.group(group_number) of the match m = <<start, end>> of re in t,
\* group_number at most the number of groups of re
MatchGroup(re, t, m, group_number) ==
    IF group_number = 0 THEN SubSeq(t, m[1], m[2] - 1)
    ELSE LET group == RegexGroups(re, 0)[group_number]
             path == MatchPath(RegexAtoms(re), 1, t, m[1])
             from == IF group.first = 1 THEN m[1] ELSE path[group.first - 1]
             to == IF group.last < group.first THEN from ELSE path[group.last]
         IN  IF group.inner = 0 THEN SubSeq(t, from, to - 1)
             ELSE AnyPathGroup(SubSeq(t, from, to - 1), group.inner)

\* the groups re.finditer's matches hold, in the order of the matches
MatchGroups(re, t, matches, group_number) ==
    [k \in 1..Len(matches) |-> MatchGroup(re, t, matches[k], group_number)]

\* s.replace(old, new), all non-overlapping occurrences, left to right
RECURSIVE ReplaceAll(_, _, _)
ReplaceAll(s, old, new) ==
    IF s = <<>> THEN <<>>
    ELSE IF StartsWithAt(s, old, 0)
         THEN new \o ReplaceAll(SliceFrom(s, Len(old)), old, new)
         ELSE <<Head(s)>> \o ReplaceAll(Tail(s), old, new)

(***************************************************************************)
(* Collaborators outside src/ that find_matching_files calls               *)
(***************************************************************************)

\* string_utils.replace(text, replacement, start, end): the span from start
\* through end (both 0-based, inclusive) replaced
StringReplace(text, replacement, start, end) ==
    Slice(text, 0, start) \o replacement \o SliceFrom(text, end + 1)

\* one glob pattern against one path: '*' matches within one directory level,
\* a '**/' of a recursive pattern matches any number of levels
RECURSIVE GlobMatches(_, _, _)
GlobMatches(pat, path, recursive) ==
    IF pat = <<>> THEN path = <<>>
    ELSE IF recursive /\ StartsWithAt(pat, <<"*", "*", "/">>, 0)
    THEN \/ GlobMatches(SliceFrom(pat, 3), path, recursive)
         \/ \E k \in 1..Len(path) :
               /\ path[k] = "/"
               /\ GlobMatches(pat, SliceFrom(path, k), recursive)
    ELSE IF pat[1] = "*"
    THEN \E n \in 0..Len(path) :
            /\ \A k \in 1..n : path[k] # "/"
            /\ GlobMatches(Tail(pat), SliceFrom(path, n), recursive)
    ELSE /\ path # <<>>
         /\ path[1] = pat[1]
         /\ GlobMatches(Tail(pat), Tail(path), recursive)

\* file_utils.search_glob(pattern, recursive): the existing paths (listing:
\* files and directories, in the directory listing's order) the pattern matches
RECURSIVE search_glob(_, _, _)
search_glob(pattern, recursive, listing) ==
    IF listing = <<>> THEN <<>>
    ELSE (IF GlobMatches(pattern, Head(listing), recursive)
          THEN <<Head(listing)>> ELSE <<>>)
         \o search_glob(pattern, recursive, Tail(listing))

(***************************************************************************)
(* find_matching_files (lines 239-289)                                     *)
(***************************************************************************)

ANY_PATH == <<"#", "a", "n", "y", "_", "p", "a", "t", "h">>

Digits == {"0", "1", "2", "3", "4", "5", "6", "7", "8", "9"}

DigitValue(c) ==
    CASE c = "0" -> 0 [] c = "1" -> 1 [] c = "2" -> 2 [] c = "3" -> 3
      [] c = "4" -> 4 [] c = "5" -> 5 [] c = "6" -> 6 [] c = "7" -> 7
      [] c = "8" -> 8 [] c = "9" -> 9

\* int(digits)
RECURSIVE ParseInt(_)
ParseInt(ds) ==
    IF ds = <<>> THEN 0
    ELSE 10 * ParseInt(SubSeq(ds, 1, Len(ds) - 1)) + DigitValue(ds[Len(ds)])

\* the number of leading characters of s[p..] that are digits
RECURSIVE DigitRun(_, _)
DigitRun(s, p) ==
    IF p <= Len(s) /\ s[p] \in Digits THEN 1 + DigitRun(s, p + 1) ELSE 0

\* line 249: re.findall('^#\d+#', s), s starting at the opening '#':
\* the first match, or <<>> when the list is empty
GroupNumberMatch(s) ==
    LET n == DigitRun(s, 2)
    IN  IF n >= 1 /\ Len(s) >= n + 2 /\ s[n + 2] = "#"
        THEN SubSeq(s, 1, n + 2)
        ELSE <<>>

\* lines 258-260: the closing '#', skipping every '#' that opens '#any_path'
RECURSIVE RegexEnd(_, _)
RegexEnd(output_pattern, from) ==
    LET regex_end == Find(output_pattern, "#", from)
    IN  IF regex_end >= 0 /\ StartsWithAt(output_pattern, ANY_PATH, regex_end)
        THEN RegexEnd(output_pattern, regex_end + 1)
        ELSE regex_end

\* lines 265-271: the regular expression of a directive's body (a Linux host)
RegexPattern(body, regex_start) ==
    LET anchored == IF StartsWithAt(body, ANY_PATH, 0) /\ regex_start = 0
                    THEN <<"~", "?">> \o body
                    ELSE body
    IN  ReplaceAll(anchored, ANY_PATH, <<ANY_PATH_REGEX>>)

\* lines 274-277 for the first match only
NewPatterns_FirstOnly(output_pattern, matched_groups, regex_start, regex_end) ==
    IF matched_groups = <<>> THEN <<>>
    ELSE <<StringReplace(output_pattern, matched_groups[1], regex_start, regex_end)>>

\* lines 274-277: one new pattern per match, in the order of the matches,
\* matched_groups being what match.group(group_number) is for each
NewPatterns(output_pattern, matched_groups, regex_start, regex_end) ==
    [k \in 1..Len(matched_groups) |->
        StringReplace(output_pattern, matched_groups[k], regex_start, regex_end)]

\* lines 281-287 left out: such a pattern yields nothing
Emitted_Dropped(output_pattern, listing) == <<>>

\* lines 281-287: a pattern without a terminated directive
Emitted(output_pattern, listing) ==
    IF ~Contains(output_pattern, "*")
    THEN <<output_pattern>>
    ELSE search_glob(output_pattern, ContainsSub(output_pattern, <<"*", "*">>), listing)

\* lines 274-277 for the matches found_matches of regex_pattern: raises
\* IndexError from group for a group the body does not have, TypeError from
\* the replacement by the None of a group that took no part in the match
MatchesPushed(output_pattern, script_output, regex_pattern, found_matches, group_number, regex_start, regex_end) ==
    LET matched_groups == MatchGroups(regex_pattern, script_output, found_matches,
                                      group_number)
    IN  IF /\ found_matches # <<>>
           /\ \/ group_number > Len(RegexGroups(regex_pattern, 0))
              \/ \E k \in 1..Len(matched_groups) : matched_groups[k] = NoGroup
        THEN [raised |-> TRUE, push |-> <<>>, emit |-> <<>>]
        ELSE [raised |-> FALSE,
              push |-> NewPatterns(output_pattern, matched_groups, regex_start, regex_end),
              emit |-> <<>>]

\* lines 244-287: one iteration of the while loop on the popped pattern:
\* the patterns it appends to output_patterns, the files it adds to files,
\* and whether it raises (re.error from finditer, or as MatchesPushed says).
\* re.finditer is evaluated once, for the found_matches of MatchesPushed.
LoopBody(output_pattern, script_output, listing) ==
    LET regex_start == Find(output_pattern, "#", 0)
        first_match == IF regex_start >= 0
                       THEN GroupNumberMatch(SliceFrom(output_pattern, regex_start))
                       ELSE <<>>
        group_number == IF first_match # <<>>
                        THEN ParseInt(SubSeq(first_match, 2, Len(first_match) - 1))
                        ELSE 0
        pattern_start == IF first_match # <<>>
                         THEN regex_start + Len(first_match) - 1
                         ELSE regex_start
        regex_end == IF regex_start >= 0
                     THEN RegexEnd(output_pattern, pattern_start + 1)
                     ELSE -1
        regex_pattern == RegexPattern(Slice(output_pattern, pattern_start + 1, regex_end),
                                      regex_start)
    IN  IF regex_start >= 0 /\ regex_end >= 0
        THEN IF ~ValidRegex(regex_pattern)
             THEN [raised |-> TRUE, push |-> <<>>, emit |-> <<>>]
             ELSE CHOOSE body \in
                     {MatchesPushed(output_pattern, script_output, regex_pattern,
                                    found_matches, group_number, regex_start, regex_end) :
                         found_matches \in {FindIter(regex_pattern, script_output)}} : TRUE
        ELSE [raised |-> FALSE, push |-> <<>>, emit |-> Emitted(output_pattern, listing)]

\* the whole loop, from a worklist and the files found so far: the files it
\* returns, or raised when an iteration raises
RECURSIVE WorkLoop(_, _, _, _)
WorkLoop(output_patterns, files, script_output, listing) ==
    IF output_patterns = <<>> THEN [raised |-> FALSE, files |-> files]
    ELSE LET body == LoopBody(Head(output_patterns), script_output, listing)
         IN  IF body.raised THEN [raised |-> TRUE, files |-> <<>>]
             ELSE WorkLoop(Tail(output_patterns) \o body.push, files \o body.emit,
                           script_output, listing)

find_matching_files(file_pattern, script_output, listing) ==
    WorkLoop(<<file_pattern>>, <<>>, script_output, listing)

(***************************************************************************)
(* The host: the filesystem, and the collaborators outside src/ that       *)
(* _prepare_downloadable_files calls                                       *)
(***************************************************************************)

WORKING_DIRECTORY == <<"/", "w">>
HOME_DIRECTORY == <<"/", "h">>
\* file_storage.prepare_new_folder(owner, result_folder): the execution's own folder
DOWNLOAD_FOLDER == <<"/", "r">>

FILE_W_O == <<"/", "w", "/", "o">>
FILE_V_O == <<"/", "v", "/", "o">>
FILE_U_O == <<"/", "u", "/", "o">>
FILE_W_P == <<"/", "w", "/", "p">>
FILE_G_HASH == <<"/", "g", "/", "#">>
DIR_W_D == <<"/", "w", "/", "d">>

\* the script's files: regular files of one base name in three directories,
\* one of another base name, and one named '#'
RegularFiles == {FILE_W_O, FILE_V_O, FILE_U_O, FILE_W_P, FILE_G_HASH}
Directories ==
    {WORKING_DIRECTORY, <<"/", "v">>, <<"/", "u">>, <<"/", "g">>, DIR_W_D, HOME_DIRECTORY,
     DOWNLOAD_FOLDER}

\* the order in which a directory listing yields the script's paths
Listing == <<FILE_V_O, DIR_W_D, FILE_W_O, FILE_U_O, FILE_W_P, FILE_G_HASH>>

\* line 183 without the test: every path is taken to exist
Exists_Always(path, staged) == TRUE

\* os.path.exists, with the files staged so far in the download folder
Exists(path, staged) == path \in RegularFiles \cup Directories \cup staged

\* line 186 without the test: a directory is taken for a file
IsDir_Never(path) == FALSE

\* os.path.isdir
IsDir(path) == path \in Directories

\* os.path.basename
Basename(path) == SliceFrom(path, RFind(path, "/") + 1)

\* os.path.join(folder, name), name relative
PathJoin(folder, name) == folder \o <<"/">> \o name

\* file_utils.normalize_path(file, working_directory): the home shorthand
\* expanded, a relative path joined to the working directory
normalize_path(file, working_directory) ==
    LET expanded == IF file # <<>> /\ file[1] = "~" /\ (Len(file) = 1 \/ file[2] = "/")
                    THEN HOME_DIRECTORY \o Tail(file)
                    ELSE file
    IN  IF expanded # <<>> /\ expanded[1] = "/"
        THEN expanded
        ELSE PathJoin(working_directory, expanded)

\* how many suffixed names create_unique_filename tries before it gives up
RETRIES == 1

DigitChars == <<"0", "1", "2", "3", "4", "5", "6", "7", "8", "9">>

\* the first free name among preferred_path + '_' + str(i), i = from, from + 1, ...
RECURSIVE NextFreeName(_, _, _)
NextFreeName(preferred_path, i, staged) ==
    IF i >= RETRIES THEN <<>>
    ELSE LET candidate == preferred_path \o <<"_", DigitChars[i + 1]>>
         IN  IF ~Exists(candidate, staged) THEN candidate
             ELSE NextFreeName(preferred_path, i + 1, staged)

\* file_utils.create_unique_filename(preferred_path): the preferred path when
\* it is free, else the first free suffixed one; <<>> stands for raising
\* FileExistsException when every retry is taken
create_unique_filename(preferred_path, staged) ==
    IF ~Exists(preferred_path, staged) THEN preferred_path
    ELSE NextFreeName(preferred_path, 0, staged)

(***************************************************************************)
(* _ScriptHandler._prepare_downloadable_files (lines 174-215)              *)
(***************************************************************************)

\* lines 181-189, for the files one declaration matched: the accepted paths
RECURSIVE AcceptFiles(_, _, _)
AcceptFiles(files, correct_files, staged) ==
    IF files = <<>> THEN correct_files
    ELSE LET file_path == normalize_path(Head(files), WORKING_DIRECTORY)
             accepted ==
                 IF ~Exists(file_path, staged) THEN correct_files
                 ELSE IF IsDir(file_path) THEN correct_files
                 ELSE IF \A k \in 1..Len(correct_files) : correct_files[k] # file_path
                      THEN Append(correct_files, file_path)
                      ELSE correct_files
         IN  AcceptFiles(Tail(files), accepted, staged)

\* lines 175-191: correct_files, or raised when find_matching_files raises;
\* CorrectFilesFound continues the loop with what one declaration matched
RECURSIVE CorrectFiles(_, _, _, _)
RECURSIVE CorrectFilesFound(_, _, _, _, _)
CorrectFiles(output_files, script_output, correct_files, staged) ==
    IF output_files = <<>> THEN [raised |-> FALSE, files |-> correct_files]
    ELSE CorrectFilesFound(find_matching_files(Head(output_files), script_output, Listing),
                           Tail(output_files), script_output, correct_files, staged)

CorrectFilesFound(found, rest, script_output, correct_files, staged) ==
    IF found.raised THEN [raised |-> TRUE, files |-> <<>>]
    ELSE CorrectFiles(rest, script_output,
                      AcceptFiles(found.files, correct_files, staged), staged)

\* shutil.copyfile(file, download_file) succeeds: the source can be read
CopySucceeds(file, unreadable) == file \notin unreadable

\* line 198 without the lookup: every resolved file is staged anew
AlreadyPrepared_Never(file, prepared_files) == FALSE

\* line 198: the file was staged before
AlreadyPrepared(file, prepared_files) == file \in DOMAIN prepared_files

\* lines 202-205 without create_unique_filename: the preferred name as it is
DownloadFile_Preferred(file, staged) == PathJoin(DOWNLOAD_FOLDER, Basename(file))

\* lines 202-205: the name the file is staged under, <<>> when none is free
DownloadFile(file, staged) ==
    create_unique_filename(PathJoin(DOWNLOAD_FOLDER, Basename(file)), staged)

\* lines 197-213 from the acc reached so far: acc holds the result mapping (in
\* insertion order), prepared_files, the download folder's files, the copies
\* made, and whether copyfile raised (which ends the call)
RECURSIVE StageFiles(_, _, _)
StageFiles(correct_files, acc, unreadable) ==
    IF correct_files = <<>> THEN acc
    ELSE LET file == Head(correct_files)
             rest == Tail(correct_files)
             download_file == DownloadFile(file, acc.staged)
         IN  IF AlreadyPrepared(file, acc.prepared_files)
             THEN StageFiles(rest,
                             [acc EXCEPT !.result = Append(@, <<file, acc.prepared_files[file]>>)],
                             unreadable)
             ELSE IF download_file = <<>>
             THEN StageFiles(rest, acc, unreadable)
             ELSE IF ~CopySucceeds(file, unreadable)
             THEN [acc EXCEPT !.raised = TRUE, !.result = <<>>]
             ELSE StageFiles(rest,
                             [acc EXCEPT !.result = Append(@, <<file, download_file>>),
                                         !.prepared_files = (file :> download_file) @@ @,
                                         !.staged = @ \cup {download_file},
                                         !.copies = Append(@, <<file, download_file>>)],
                             unreadable)

\* the call: what it returns (result, or raised) and what it leaves behind
\* (prepared_files, the download folder's files, the copies made)
StageCorrectFiles(correct, start, unreadable) ==
    IF correct.raised THEN [start EXCEPT !.raised = TRUE]
    ELSE StageFiles(correct.files, start, unreadable)

prepare_downloadable_files(output_files, script_output, prepared_files, staged, unreadable) ==
    StageCorrectFiles(CorrectFiles(output_files, script_output, <<>>, staged),
                      [raised |-> FALSE, result |-> <<>>, prepared_files |-> prepared_files,
                       staged |-> staged, copies |-> <<>>],
                      unreadable)

(***************************************************************************)
(* Output declarations (config.output_files) and _ScriptHandler.__init__   *)
(***************************************************************************)

INLINE_IMAGE_TYPE == "inline-image"

\* a declaration is a str (kind "str"), a dict (kind "dict", with the values
\* of its 'type' and 'path' keys: "None" and NONE for a missing key) or
\* something else
NONE == <<"None">>

StrFile(path) == [kind |-> "str", type |-> "None", path |-> path]
DictFile(type, path) == [kind |-> "dict", type |-> type, path |-> path]

\* lines 107-115 without lines 112-113: only a str is a generic declaration
is_post_finish_path_StrOnly(file) == file.kind = "str"

\* lines 107-115
is_post_finish_path(file) ==
    IF file.kind = "str" THEN TRUE
    ELSE IF file.kind = "dict" THEN file.type # INLINE_IMAGE_TYPE
    ELSE FALSE

\* lines 117-119
is_inline_image_path(file) == file.kind = "dict" /\ file.type = INLINE_IMAGE_TYPE

\* str.strip() of spaces
RECURSIVE Strip(_)
Strip(s) ==
    IF s = <<>> THEN s
    ELSE IF s[1] = " " THEN Strip(Tail(s))
    ELSE IF s[Len(s)] = " " THEN Strip(SubSeq(s, 1, Len(s) - 1))
    ELSE s

\* string_utils.is_blank
is_blank(path) == path = NONE \/ Strip(path) = <<>>

\* lines 292-299
extract_path(output_file) ==
    IF output_file.kind = "str" THEN output_file.path
    ELSE IF output_file.kind = "dict" /\ ~is_blank(output_file.path)
    THEN Strip(output_file.path)
    ELSE NONE

\* lines 93-105, the predicate being _is_inline_image_path (inline TRUE) or
\* _is_post_finish_path; line 99 drops None and ''. No declaration of the
\* model holds a parameter placeholder, so substitute_parameter_values
\* changes none.
RECURSIVE get_paths(_, _)
get_paths(output_files, inline) ==
    IF output_files = <<>> THEN <<>>
    ELSE LET f == Head(output_files)
             p == extract_path(f)
             selected == IF inline THEN is_inline_image_path(f) ELSE is_post_finish_path(f)
         IN  (IF selected /\ p # NONE /\ p # <<>> THEN <<p>> ELSE <<>>)
             \o get_paths(Tail(output_files), inline)

\* line 75 without the early return
NoPaths_Never(result_files_paths, inline_image_paths) == FALSE

\* line 75: the handler has nothing to resolve
NoPaths(result_files_paths, inline_image_paths) ==
    result_files_paths = <<>> /\ inline_image_paths = <<>>

\* lines 60-88: the handler after construction. output_files is what
\* self.config holds of the execution's configuration. download_folder is <<>> while
\* no folder is allocated; finish_listener and subscribed say whether
\* _execution_finished was registered and the InlineImageListener subscribed.
NewHandler(output_files) ==
    LET result_files_paths == get_paths(output_files, FALSE)
        inline_image_paths == get_paths(output_files, TRUE)
        inert == NoPaths(result_files_paths, inline_image_paths)
    IN  [output_files |-> output_files,
         result_files_paths |-> result_files_paths,
         inline_image_paths |-> inline_image_paths,
         prepared_files |-> <<>>,
         result_files |-> <<>>,
         inline_images |-> <<>>,
         inline_image_listeners |-> <<>>,
         download_folder |-> IF inert THEN <<>> ELSE DOWNLOAD_FOLDER,
         finish_listener |-> ~inert /\ result_files_paths # <<>>,
         subscribed |-> ~inert /\ inline_image_paths # <<>>,
         last_buffer |-> <<>>]

(***************************************************************************)
(* State                                                                   *)
(***************************************************************************)

VARIABLES
    handlers,       \* FileDownloadFeature._execution_handlers: id -> handler
    stream,         \* the chunks the execution's output stream has delivered
    closed,         \* the output stream is closed
    finished,       \* the execution's finish listeners have been fired
    staged,         \* the files in the download folder
    unreadable,     \* the script's files that copyfile cannot read
    passes,         \* the texts InlineImageListener.prepare_images was given
    calls,          \* the listener invocations of _add_inline_image, in order
    copies,         \* the copyfile calls that succeeded, in order
    returned,       \* what the calls of _prepare_downloadable_files that
                    \* returned returned, in order
    listeners_at,   \* per inline_images entry: the listeners registered then
    ret,            \* the last operation called, the execution id it was
                    \* called for, what it returned and whether it raised
    output_patterns, \* find_matching_files: the worklist
    output_pattern, \* find_matching_files: the item popped from the worklist
    files,          \* find_matching_files: the files found so far
    script_output,  \* find_matching_files: the text block
    pc              \* find_matching_files: "idle", "loop" (line 243),
                    \* "popped" (line 246), "done" or "raised"

vars == <<handlers, stream, closed, finished, staged, unreadable, passes, calls,
          copies, returned, listeners_at, ret, output_patterns, output_pattern, files,
          script_output, pc>>

featureVars == <<handlers, stream, closed, finished, staged, unreadable, passes,
                 calls, copies, returned, listeners_at, ret>>

matchVars == <<output_patterns, output_pattern, files, script_output, pc>>

(***************************************************************************)
(* _ScriptHandler._add_inline_image and the InlineImageListener            *)
(***************************************************************************)

\* the keys of an insertion-ordered dict kept as a sequence of <<key, value>>
Keys(items) == {items[k][1] : k \in 1..Len(items)}

\* line 218 without the lookup: every resolved image is a new one
KnownImage_Never(original_path, inline_images) == FALSE

\* line 218: the image was discovered before
KnownImage(original_path, inline_images) == original_path \in Keys(inline_images)

\* lines 223-227 without the try: the calls end with the first that raises
NotifyListeners_StopAtRaise(inline_image_listeners, original_path, download_path) ==
    LET raising == {k \in 1..Len(inline_image_listeners) : inline_image_listeners[k] = "raises"}
        last == IF raising = {} THEN Len(inline_image_listeners)
                ELSE CHOOSE k \in raising : \A j \in raising : k <= j
    IN  [k \in 1..last |->
            [listener |-> k, original_path |-> original_path, download_path |-> download_path,
             raised |-> inline_image_listeners[k] = "raises"]]

\* lines 223-227: every listener is called, a raising one is caught
NotifyListeners(inline_image_listeners, original_path, download_path) ==
    [k \in 1..Len(inline_image_listeners) |->
        [listener |-> k, original_path |-> original_path, download_path |-> download_path,
         raised |-> inline_image_listeners[k] = "raises"]]

\* lines 217-227, on acc: the inline_images reached and the calls made so far
add_inline_image(acc, inline_image_listeners, original_path, download_path) ==
    IF KnownImage(original_path, acc.inline_images) THEN acc
    ELSE [inline_images |-> Append(acc.inline_images, <<original_path, download_path>>),
          calls |-> acc.calls \o NotifyListeners(inline_image_listeners,
                                                 original_path, download_path)]

\* lines 169-170
RECURSIVE AddInlineImages(_, _, _)
AddInlineImages(images, acc, inline_image_listeners) ==
    IF images = <<>> THEN acc
    ELSE AddInlineImages(Tail(images),
                         add_inline_image(acc, inline_image_listeners,
                                          Head(images)[1], Head(images)[2]),
                         inline_image_listeners)

\* lines 163-170 on handler h: the handler after the pass, the download
\* folder's files, the copies and listener calls made, whether it raised
ImagesAdded(h, images, added) ==
    [handler |-> [h EXCEPT !.prepared_files = images.prepared_files,
                           !.inline_images = added.inline_images],
     staged |-> images.staged,
     copies |-> images.copies,
     returned |-> IF images.raised THEN <<>> ELSE <<images.result>>,
     calls |-> added.calls,
     raised |-> images.raised,
     ran |-> TRUE]

ImagesPrepared(h, images) ==
    ImagesAdded(h, images,
                AddInlineImages(images.result,
                                [inline_images |-> h.inline_images, calls |-> <<>>],
                                h.inline_image_listeners))

prepare_images(h, output, folder_files) ==
    ImagesPrepared(h, prepare_downloadable_files(h.inline_image_paths, output,
                                                 h.prepared_files, folder_files,
                                                 unreadable))

\* no pass: the handler and the folder as they are
NoPass(h, folder_files) ==
    [handler |-> h, staged |-> folder_files, copies |-> <<>>, returned |-> <<>>,
     calls |-> <<>>,
     raised |-> FALSE, ran |-> FALSE]

\* lines 140-153 without the buffer: a pass over every chunk as it comes
on_next_EveryChunk(h, chunk, folder_files) ==
    [pass |-> prepare_images(h, chunk, folder_files), text |-> chunk]

\* lines 140-153 with the remainder cut at the newline, not after it
on_next_KeepsNewline(h, chunk, folder_files) ==
    LET output == h.last_buffer \o chunk
        last_newline_index == RFind(output, "\n")
        buffered == [h EXCEPT !.last_buffer = SliceFrom(output, last_newline_index)]
        lines == Slice(output, 0, last_newline_index)
    IN  IF ~Contains(output, "\n")
        THEN [pass |-> NoPass([h EXCEPT !.last_buffer = output], folder_files),
              text |-> <<>>]
        ELSE IF lines # <<>>
        THEN [pass |-> prepare_images(buffered, lines, folder_files), text |-> lines]
        ELSE [pass |-> NoPass(buffered, folder_files), text |-> <<>>]

\* lines 140-153. The buffer is assigned (line 149) before the pass runs.
on_next(h, chunk, folder_files) ==
    LET output == h.last_buffer \o chunk
        last_newline_index == RFind(output, "\n")
        buffered == [h EXCEPT !.last_buffer = SliceFrom(output, last_newline_index + 1)]
        lines == Slice(output, 0, last_newline_index)
    IN  IF ~Contains(output, "\n")
        THEN [pass |-> NoPass([h EXCEPT !.last_buffer = output], folder_files),
              text |-> <<>>]
        ELSE IF lines # <<>>
        THEN [pass |-> prepare_images(buffered, lines, folder_files), text |-> lines]
        ELSE [pass |-> NoPass(buffered, folder_files), text |-> <<>>]

\* lines 155-160. The buffer is cleared (line 160) after the pass returns, so
\* a pass that raises leaves it.
ClosePass(pass, text) ==
    IF pass.raised
    THEN [pass |-> pass, text |-> text]
    ELSE [pass |-> [pass EXCEPT !.handler.last_buffer = <<>>], text |-> text]

on_close(h, folder_files) ==
    IF h.last_buffer = <<>>
    THEN [pass |-> NoPass(h, folder_files), text |-> <<>>]
    ELSE ClosePass(prepare_images(h, h.last_buffer, folder_files), h.last_buffer)

\* line 130 with the keys of downloadable_files: the source paths
ResultFilesExtended_Keys(h, downloadable_files) ==
    [handler |-> [h EXCEPT !.prepared_files = downloadable_files.prepared_files,
                           !.result_files =
                               IF downloadable_files.raised THEN @
                               ELSE @ \o [k \in 1..Len(downloadable_files.result) |->
                                             downloadable_files.result[k][1]]],
     staged |-> downloadable_files.staged,
     copies |-> downloadable_files.copies,
     returned |-> IF downloadable_files.raised THEN <<>>
                  ELSE <<downloadable_files.result>>,
     raised |-> downloadable_files.raised]

\* lines 121-130: script_output is everything the stream delivered
\* line 130, when the call of lines 125-128 returned downloadable_files
ResultFilesExtended(h, downloadable_files) ==
    [handler |-> [h EXCEPT !.prepared_files = downloadable_files.prepared_files,
                           !.result_files =
                               IF downloadable_files.raised THEN @
                               ELSE @ \o [k \in 1..Len(downloadable_files.result) |->
                                             downloadable_files.result[k][2]]],
     staged |-> downloadable_files.staged,
     copies |-> downloadable_files.copies,
     returned |-> IF downloadable_files.raised THEN <<>>
                  ELSE <<downloadable_files.result>>,
     raised |-> downloadable_files.raised]

execution_finished(h, output_stream_data, folder_files) ==
    ResultFilesExtended(h, prepare_downloadable_files(h.result_files_paths,
                               Join(output_stream_data), h.prepared_files, folder_files,
                               unreadable))

(***************************************************************************)
(* The executions, configurations, output chunks and listeners of the      *)
(* model                                                                   *)
(***************************************************************************)

\* the execution that is started, and an id no execution has
EXECUTION == "e1"
UNKNOWN_EXECUTION == "e2"
ExecutionIds == {EXECUTION, UNKNOWN_EXECUTION}

\* the stream delivers at most MaxChunks chunks
MaxChunks == 3
\* at most MaxListeners callbacks subscribe
MaxListeners == 2

D_LITERAL == StrFile(<<"o">>)
D_GLOB == DictFile("None", <<"/", "v", "/", "*">>)
D_INLINE == DictFile(INLINE_IMAGE_TYPE, <<" ">> \o <<"#">> \o ANY_PATH \o <<"#">>)
D_BLANK == DictFile(INLINE_IMAGE_TYPE, <<" ">>)

\* config.output_files of the execution: none, only a blank inline-image
\* path, generic only, inline only, both
OutputFilesConfigs ==
    {<<>>, <<D_BLANK>>, <<D_LITERAL, D_GLOB>>, <<D_INLINE>>,
     <<D_INLINE, D_LITERAL, D_GLOB>>}

\* the chunks of script output: "/w/o\n", "/v/o" and "\n/w/o\n"
OutputChunks ==
    {FILE_W_O \o <<"\n">>, FILE_V_O, <<"\n">> \o FILE_W_O \o <<"\n">>}

\* a callback either returns or raises
ListenerKinds == {"returns", "raises"}

UnreadableChoices == {{}, {FILE_V_O}}

\* ret before any operation was called
NoReturn == [op |-> "none", id |-> "none", value |-> <<>>, raised |-> FALSE]

(***************************************************************************)
(* Operations                                                              *)
(***************************************************************************)

\* the listeners_at entries of the inline_images entries a step added
RegisteredAt(before, after) ==
    [k \in 1..(Len(after.inline_images) - Len(before.inline_images)) |->
        Len(before.inline_image_listeners)]

\* lines 30-32: start_listener(execution_id)
StartListener(output_files) ==
    /\ EXECUTION \notin DOMAIN handlers
    /\ handlers' = (EXECUTION :> NewHandler(output_files)) @@ handlers
    /\ ret' = [op |-> "start_listener", id |-> EXECUTION, value |-> <<>>, raised |-> FALSE]
    /\ UNCHANGED <<stream, closed, finished, staged, unreadable, passes, calls,
                   copies, returned, listeners_at, matchVars>>

\* what a stream event does to the state through the pass it ran (or not)
StreamEffect(op, h, r) ==
    /\ ret' = [op |-> op, id |-> EXECUTION, value |-> <<>>, raised |-> r.pass.raised]
    /\ handlers' = [handlers EXCEPT ![EXECUTION] = r.pass.handler]
    /\ staged' = r.pass.staged
    /\ copies' = copies \o r.pass.copies
    /\ returned' = returned \o r.pass.returned
    /\ calls' = calls \o r.pass.calls
    /\ passes' = IF r.pass.ran THEN Append(passes, r.text) ELSE passes
    /\ listeners_at' = listeners_at \o RegisteredAt(h, r.pass.handler)

\* the output stream delivers a chunk: on_next of the subscribed listener
Push(chunk) ==
    /\ EXECUTION \in DOMAIN handlers
    /\ ~closed
    /\ Len(stream) < MaxChunks
    /\ stream' = Append(stream, chunk)
    /\ LET h == handlers[EXECUTION]
       IN  StreamEffect("on_next", h,
                        IF h.subscribed THEN on_next(h, chunk, staged)
                        ELSE [pass |-> NoPass(h, staged), text |-> <<>>])
    /\ UNCHANGED <<closed, finished, unreadable, matchVars>>

\* the output stream closes: on_close of the subscribed listener
Close ==
    /\ EXECUTION \in DOMAIN handlers
    /\ ~closed
    /\ closed' = TRUE
    /\ LET h == handlers[EXECUTION]
       IN  StreamEffect("on_close", h,
                        IF h.subscribed THEN on_close(h, staged)
                        ELSE [pass |-> NoPass(h, staged), text |-> <<>>])
    /\ UNCHANGED <<stream, finished, unreadable, matchVars>>

\* what the finish listener leaves behind
FinishEffect(r) ==
    /\ handlers' = [handlers EXCEPT ![EXECUTION] = r.handler]
    /\ staged' = r.staged
    /\ copies' = copies \o r.copies
    /\ returned' = returned \o r.returned
    /\ ret' = [op |-> "finish", id |-> EXECUTION, value |-> <<>>, raised |-> r.raised]

\* the execution finishes, once, after its output was drained: the finish
\* listener, when the handler registered one
Finish ==
    /\ EXECUTION \in DOMAIN handlers
    /\ closed
    /\ ~finished
    /\ finished' = TRUE
    /\ IF handlers[EXECUTION].finish_listener
       THEN FinishEffect(execution_finished(handlers[EXECUTION], stream, staged))
       ELSE /\ UNCHANGED <<handlers, staged, copies, returned>>
            /\ ret' = [op |-> "finish", id |-> EXECUTION, value |-> <<>>, raised |-> FALSE]
    /\ UNCHANGED <<stream, closed, unreadable, passes, calls, listeners_at, matchVars>>

\* lines 36-41
get_downloadable_files(execution_id) ==
    IF execution_id \notin DOMAIN handlers THEN <<>>
    ELSE handlers[execution_id].result_files

GetDownloadableFiles(execution_id) ==
    /\ ret' = [op |-> "get_downloadable_files", id |-> execution_id,
               value |-> get_downloadable_files(execution_id), raised |-> FALSE]
    /\ UNCHANGED <<handlers, stream, closed, finished, staged, unreadable, passes,
                   calls, copies, returned, listeners_at, matchVars>>

\* line 41 without the copy: the list returned is the handler's own
returned_list_Own(execution_id) ==
    IF execution_id \notin DOMAIN handlers THEN "new" ELSE "result_files"

\* lines 39 and 41: the list object get_downloadable_files returns, a new
\* empty list or a copy of the handler's result_files
returned_list(execution_id) ==
    IF execution_id \notin DOMAIN handlers THEN "new" ELSE "copy"

\* the caller of get_downloadable_files appends an item of its own to the
\* list it was returned; the handler's list changes with it when the two are
\* one object
CALLER_ITEM == <<"x">>

CallerAppends ==
    /\ ret.op = "get_downloadable_files"
    /\ ret' = [ret EXCEPT !.op = "caller_append", !.value = Append(@, CALLER_ITEM)]
    /\ handlers' = IF returned_list(ret.id) = "result_files"
                   THEN [handlers EXCEPT ![ret.id].result_files = Append(@, CALLER_ITEM)]
                   ELSE handlers
    /\ UNCHANGED <<stream, closed, finished, staged, unreadable, passes, calls,
                   copies, returned, listeners_at, matchVars>>

\* lines 49-55 with a handler made for an id that has none
subscribe_on_inline_images_Create(execution_id, callback) ==
    IF execution_id \notin DOMAIN handlers
    THEN (execution_id :> [NewHandler(<<>>) EXCEPT !.inline_image_listeners = <<callback>>])
         @@ handlers
    ELSE [handlers EXCEPT ![execution_id].inline_image_listeners = Append(@, callback)]

\* lines 49-55 and 90-91: the registry after the call
subscribe_on_inline_images(execution_id, callback) ==
    IF execution_id \notin DOMAIN handlers THEN handlers
    ELSE [handlers EXCEPT ![execution_id].inline_image_listeners = Append(@, callback)]

SubscribeOnInlineImages(execution_id, callback) ==
    /\ execution_id \in DOMAIN handlers =>
          Len(handlers[execution_id].inline_image_listeners) < MaxListeners
    /\ handlers' = subscribe_on_inline_images(execution_id, callback)
    /\ ret' = [op |-> "subscribe_on_inline_images", id |-> execution_id,
               value |-> <<>>, raised |-> FALSE]
    /\ UNCHANGED <<stream, closed, finished, staged, unreadable, passes, calls,
                   copies, returned, listeners_at, matchVars>>

MatchIdle ==
    /\ output_patterns = <<>>
    /\ output_pattern = <<>>
    /\ files = <<>>
    /\ script_output = <<>>
    /\ pc = "idle"

Init ==
    /\ handlers = <<>>
    /\ stream = <<>>
    /\ closed = FALSE
    /\ finished = FALSE
    /\ staged = {}
    /\ unreadable \in UnreadableChoices
    /\ passes = <<>>
    /\ calls = <<>>
    /\ copies = <<>>
    /\ returned = <<>>
    /\ listeners_at = <<>>
    /\ ret = NoReturn
    /\ MatchIdle

Next ==
    \/ \E output_files \in OutputFilesConfigs : StartListener(output_files)
    \/ \E chunk \in OutputChunks : Push(chunk)
    \/ Close
    \/ Finish
    \/ \E execution_id \in ExecutionIds : GetDownloadableFiles(execution_id)
    \/ \E execution_id \in ExecutionIds, callback \in ListenerKinds :
          SubscribeOnInlineImages(execution_id, callback)

Spec == Init /\ [][Next]_vars

(***************************************************************************)
(* The InlineImageListener on a stream of any chunks of lines              *)
(***************************************************************************)

\* the chunks "path=/tmp/" and "img.png\n" of one line delivered in two parts
CHUNK_PATH == <<"p", "a", "t", "h", "=", "/", "t", "m", "p", "/">>
CHUNK_IMG == <<"i", "m", "g", ".", "p", "n", "g", "\n">>

\* a chunk is any string of these characters up to this length, or one of the
\* two parts of the line
MaxChunkLen == 2
LineChars == {"a", "\n"}
LineChunks ==
    UNION {[1..k -> LineChars] : k \in 0..MaxChunkLen} \cup {CHUNK_PATH, CHUNK_IMG}

NextLines ==
    \/ StartListener(<<D_INLINE>>)
    \/ \E chunk \in LineChunks : Push(chunk)
    \/ Close

SpecLines == Init /\ [][NextLines]_vars

(***************************************************************************)
(* Both flows on declarations of literal paths, globs and directives that  *)
(* resolve to missing paths, directories, one file twice and more files of *)
(* one base name than create_unique_filename finds names for               *)
(***************************************************************************)

G_O == StrFile(<<"o">>)
G_W_O == StrFile(FILE_W_O)
G_V_O == DictFile("file", FILE_V_O)
G_X == StrFile(<<"x">>)
G_D == StrFile(<<"d">>)
G_W_P == StrFile(FILE_W_P)
G_GLOB_W == StrFile(<<"/", "w", "/", "*">>)
G_GLOB_Z == StrFile(<<"/", "z", "/", "*">>)
G_GLOB_O == DictFile("None", <<"/", "*", "/", "o">>)
I_W_O == DictFile(INLINE_IMAGE_TYPE, FILE_W_O)
G_NO_PATH == DictFile("file", NONE)
G_EMPTY == StrFile(<<>>)

\* config.output_files of the execution
ResolveConfigs ==
    {<<G_O>>, <<G_W_O>>, <<G_V_O>>, <<G_X>>, <<G_D>>, <<G_W_P>>,
     <<G_O, G_W_O>>,
     <<G_O, G_GLOB_W, G_X, G_GLOB_Z>>,
     <<G_GLOB_O, G_W_P>>,
     <<I_W_O>>,
     <<D_INLINE, G_O>>,
     <<>>, <<D_BLANK>>, <<G_EMPTY>>, <<G_NO_PATH, D_INLINE>>, <<D_BLANK, G_O>>}

\* the chunks of script output: "/w/o\n", "/u/o" and "\n"
ResolveChunks == {FILE_W_O \o <<"\n">>, FILE_U_O, <<"\n">>}

ResolveUnreadable == {{}, {FILE_W_P}}

InitResolve ==
    /\ handlers = <<>>
    /\ stream = <<>>
    /\ closed = FALSE
    /\ finished = FALSE
    /\ staged = {}
    /\ unreadable \in ResolveUnreadable
    /\ passes = <<>>
    /\ calls = <<>>
    /\ copies = <<>>
    /\ returned = <<>>
    /\ listeners_at = <<>>
    /\ ret = NoReturn
    /\ MatchIdle

NextResolve ==
    \/ \E output_files \in ResolveConfigs : StartListener(output_files)
    \/ \E chunk \in ResolveChunks : Push(chunk)
    \/ Close
    \/ Finish
    \/ SubscribeOnInlineImages(EXECUTION, "returns")
    \/ \E execution_id \in ExecutionIds : GetDownloadableFiles(execution_id)
    \/ CallerAppends

SpecResolve == InitResolve /\ [][NextResolve]_vars

(***************************************************************************)
(* find_matching_files step by step: one action per loop iteration         *)
(***************************************************************************)

\* the declarations and text blocks find_matching_files is called with: every
\* string of the directive characters up to a length, and some declarations
\* with a glob, a group number and the #any_path macro
MaxPatternLen == 4
MaxTextLen == 4

MatchChars == {"#", ".", "+"}

BoundedStrings(chars, n) == UNION {[1..k -> chars] : k \in 0..n}

\* the declaration '#1#(foo)-(bar)#' and the text 'foo-bar'
PATTERN_FOO ==
    <<"#", "1", "#", "(", "f", "o", "o", ")", "-", "(", "b", "a", "r", ")", "#">>
TEXT_FOO_BAR == <<"f", "o", "o", "-", "b", "a", "r">>

ExtraPatterns ==
    {<<"/", "v", "/", "*">>,
     <<"#", ".", "#", "*">>,
     <<"#", "1", "#", ".", "#">>,
     <<"#">> \o ANY_PATH \o <<"#">>,
     <<"#">> \o ANY_PATH,
     <<"#", "1", "#", ".">>,
     PATTERN_FOO,
     <<"/", "g", "/", "#", "*">>}

FilePatterns == BoundedStrings(MatchChars, MaxPatternLen) \cup ExtraPatterns

TextBlocks == BoundedStrings(MatchChars, MaxTextLen) \cup {TEXT_FOO_BAR}

\* the model follows a worklist item while it is no longer than this
MaxItemLen == Len(ANY_PATH) + MaxPatternLen + MaxTextLen

FeatureIdle ==
    /\ handlers = <<>>
    /\ stream = <<>>
    /\ closed = FALSE
    /\ finished = FALSE
    /\ staged = {}
    /\ unreadable = {}
    /\ passes = <<>>
    /\ calls = <<>>
    /\ copies = <<>>
    /\ returned = <<>>
    /\ listeners_at = <<>>
    /\ ret = NoReturn

\* lines 239-242: the call, with any declaration and any text block
MatchCall ==
    /\ pc = "idle"
    /\ pc' = "loop"
    /\ \E file_pattern \in FilePatterns : output_patterns' = <<file_pattern>>
    /\ output_pattern' = <<>>
    /\ files' = <<>>
    /\ \E text \in TextBlocks : script_output' = text
    /\ UNCHANGED featureVars

\* lines 243-244: the worklist is not empty, its first item is popped
MatchPop ==
    /\ pc = "loop"
    /\ output_patterns # <<>>
    /\ Len(Head(output_patterns)) <= MaxItemLen
    /\ pc' = "popped"
    /\ output_pattern' = Head(output_patterns)
    /\ output_patterns' = Tail(output_patterns)
    /\ UNCHANGED <<files, script_output, featureVars>>

\* the state after the rest of the iteration, body being what it does
MatchProcessed(body) ==
    /\ pc' = IF body.raised THEN "raised" ELSE "loop"
    /\ output_patterns' = output_patterns \o body.push
    /\ files' = files \o body.emit

\* lines 246-287: the rest of the iteration, on the popped item
MatchProcess ==
    /\ pc = "popped"
    /\ MatchProcessed(LoopBody(output_pattern, script_output, Listing))
    /\ UNCHANGED <<output_pattern, script_output, featureVars>>

\* lines 243 and 289: the worklist is empty, the function returns files
MatchReturn ==
    /\ pc = "loop"
    /\ output_patterns = <<>>
    /\ pc' = "done"
    /\ UNCHANGED <<output_patterns, output_pattern, files, script_output, featureVars>>

InitMatch == FeatureIdle /\ MatchIdle

NextMatch ==
    \/ MatchCall
    \/ MatchPop
    \/ MatchProcess
    \/ MatchReturn

SpecMatch == InitMatch /\ [][NextMatch]_vars

\* the loop is sequential code: while it can take a step it takes it.
\* MatchProcess is enabled exactly when pc = "popped" and always leaves it,
\* so its weak fairness is written as the state it may not stay in.
FairSpecMatch ==
    /\ SpecMatch
    /\ WF_vars(MatchPop)
    /\ WF_vars(MatchReturn)
    /\ []<>(pc # "popped")

(***************************************************************************)
(* Claims                                                                  *)
(***************************************************************************)

\* a step keeps every entry of every handler's prepared_files as it is
EntriesKept ==
    \A id \in DOMAIN handlers :
        /\ id \in DOMAIN handlers'
        /\ \A file \in DOMAIN handlers[id].prepared_files :
              /\ file \in DOMAIN handlers'[id].prepared_files
              /\ handlers'[id].prepared_files[file] = handlers[id].prepared_files[file]

\* no source path was copied twice, and every call returned, for each source
\* path it resolved, the staged path of the path's entry
ReturnedFromEntries ==
    /\ \A i, j \in 1..Len(copies) : i # j => copies[i][1] # copies[j][1]
    /\ \A n \in 1..Len(returned) :
          \A k \in 1..Len(returned[n]) :
              /\ EXECUTION \in DOMAIN handlers
              /\ returned[n][k][1] \in DOMAIN handlers[EXECUTION].prepared_files
              /\ returned[n][k][2] = handlers[EXECUTION].prepared_files[returned[n][k][1]]

\* C1: in one execution handler an entry of prepared_files (the StagedFileMap)
\* is never removed or changed in a later state, and every later call of
\* _prepare_downloadable_files that resolves the same source path returns that
\* staged path, without another copy and without a new name.
C1_StagedEntryIsFinal == [][EntriesKept]_vars /\ []ReturnedFromEntries

\* /w/o was resolved by two passes, returned by both and copied once
C1_ResolvedTwiceCopiedOnce ==
    /\ EXECUTION \in DOMAIN handlers
    /\ Len(passes) >= 2
    /\ passes[1] = FILE_W_O
    /\ passes[2] = FILE_W_O
    /\ Len(returned) >= 2
    /\ returned[1] = returned[2]
    /\ Len(returned[1]) = 1
    /\ FILE_W_O \in DOMAIN handlers[EXECUTION].prepared_files
    /\ copies = <<<<FILE_W_O, handlers[EXECUTION].prepared_files[FILE_W_O]>>>>

\* the calls listener l received, as the original paths in the order received
RECURSIVE ReceivedBy(_, _)
ReceivedBy(l, some_calls) ==
    IF some_calls = <<>> THEN <<>>
    ELSE (IF Head(some_calls).listener = l
          THEN <<Head(some_calls).original_path>> ELSE <<>>)
         \o ReceivedBy(l, Tail(some_calls))

\* the original paths of the images discovered while listener l was registered
RECURSIVE DiscoveredFor(_, _, _)
DiscoveredFor(l, inline_images, registered) ==
    IF inline_images = <<>> THEN <<>>
    ELSE (IF l <= Head(registered) THEN <<Head(inline_images)[1]>> ELSE <<>>)
         \o DiscoveredFor(l, Tail(inline_images), Tail(registered))

\* C2: for any sequence of output chunks and close, every listener registered
\* when an inline image is first discovered is called exactly once with that
\* (original path, staged path) pair, never again for the same original path
\* on a later pass, and the calls a listener receives are in discovery order.
C2_NotifiedOnceInOrder ==
    EXECUTION \in DOMAIN handlers =>
        LET h == handlers[EXECUTION]
        IN  /\ Len(listeners_at) = Len(h.inline_images)
            /\ \A l \in 1..Len(h.inline_image_listeners) :
                  /\ ReceivedBy(l, calls) = DiscoveredFor(l, h.inline_images, listeners_at)
                  /\ \A c, d \in 1..Len(calls) :
                        (c # d /\ calls[c].listener = l /\ calls[d].listener = l)
                            => calls[c].original_path # calls[d].original_path
            /\ \A c \in 1..Len(calls) :
                  \E k \in 1..Len(h.inline_images) :
                      /\ h.inline_images[k][1] = calls[c].original_path
                      /\ h.inline_images[k][2] = calls[c].download_path

\* two images were discovered by two passes, the second pass resolving the
\* first image again, and the listener registered from the start got two calls
C2_TwoImagesOneListener ==
    /\ EXECUTION \in DOMAIN handlers
    /\ Len(handlers[EXECUTION].inline_images) = 2
    /\ listeners_at = <<1, 1>>
    /\ Len(passes) = 2
    /\ passes[2] = FILE_V_O \o <<"\n">> \o FILE_W_O
    /\ ReceivedBy(1, calls) = <<FILE_W_O, FILE_V_O>>

\* the step is on_next of a subscribed listener, for the chunk the stream
\* delivers in it
OnNextStep ==
    /\ EXECUTION \in DOMAIN handlers
    /\ handlers[EXECUTION].subscribed
    /\ Len(stream') = Len(stream) + 1

\* what on_next is to do with the chunk: no pass and the whole kept when it
\* has no newline; else at most one pass, over the buffer and the chunk up to
\* the chunk's last newline, and the rest kept
ChunkBuffered(buffer, chunk) ==
    LET whole == buffer \o chunk
        newlines == {k \in 1..Len(whole) : whole[k] = "\n"}
        last == CHOOSE k \in newlines : \A j \in newlines : j <= k
    IN  IF \A k \in 1..Len(chunk) : chunk[k] # "\n"
        THEN /\ passes' = passes
             /\ handlers'[EXECUTION].last_buffer = whole
        ELSE /\ passes' \in {passes, Append(passes, SubSeq(whole, 1, last - 1))}
             /\ handlers'[EXECUTION].last_buffer = SubSeq(whole, last + 1, Len(whole))

\* while the stream is open the buffer is the part of a line the stream ends
\* with, and no more passes ran than chunks with a newline were delivered
LinesOnly ==
    (EXECUTION \in DOMAIN handlers /\ handlers[EXECUTION].subscribed /\ ~closed) =>
        LET delivered == Join(stream)
        IN  /\ handlers[EXECUTION].last_buffer
                   = SliceFrom(delivered, RFind(delivered, "\n") + 1)
            /\ Len(passes) <= Cardinality({k \in 1..Len(stream) : Contains(stream[k], "\n")})

\* the chunks "path=/tmp/" and "img.png\n", then close: one pass, over the line
LineInTwoChunks ==
    (stream = <<CHUNK_PATH, CHUNK_IMG>> /\ closed) =>
        passes = <<CHUNK_PATH \o SubSeq(CHUNK_IMG, 1, Len(CHUNK_IMG) - 1)>>

\* C3: in the streaming flow, before close, no resolution pass runs on text
\* that ends in an incomplete line: a chunk without a newline triggers no pass
\* and is only buffered; a chunk with a newline triggers at most one pass, over
\* the carried-over buffer plus the chunk up to (not including) its last
\* newline, the rest being carried forward. The chunks "path=/tmp/",
\* "img.png\n", close give exactly one pass, over "path=/tmp/img.png".
C3_PassesOnCompleteLines ==
    /\ [][OnNextStep =>
             ChunkBuffered(handlers[EXECUTION].last_buffer, stream'[Len(stream')])]_vars
    /\ [](LinesOnly /\ LineInTwoChunks)

\* the line came in two chunks, the stream closed, and one pass ran
C3_LineReassembled ==
    /\ stream = <<CHUNK_PATH, CHUNK_IMG>>
    /\ closed
    /\ Len(passes) = 1

\* the step is on_close of a subscribed listener
OnCloseStep ==
    /\ EXECUTION \in DOMAIN handlers
    /\ handlers[EXECUTION].subscribed
    /\ ~closed
    /\ closed'

\* on_close: one pass over a buffer that is not empty, which is emptied; no
\* pass on an empty one
BufferFlushed ==
    LET buffer == handlers[EXECUTION].last_buffer
    IN  /\ passes' = IF buffer # <<>> THEN Append(passes, buffer) ELSE passes
        /\ handlers'[EXECUTION].last_buffer = <<>>

\* C4: on stream close, a partial-line buffer that is not empty gets exactly
\* one resolution pass and becomes empty, an empty one gets no pass; in every
\* state after close no further pass or listener notification occurs for the
\* handler.
C4_CloseFlushesBuffer ==
    [][/\ OnCloseStep => BufferFlushed
       /\ closed => passes' = passes /\ calls' = calls]_vars

\* a handler whose listeners were called: one of them raised
SomeListenerRaised == \E c \in 1..Len(calls) : calls[c].raised

\* the chunk of an on_next step that is to trigger a pass: the buffer and the
\* chunk hold a line that is not empty
HoldsLine(buffer, chunk) ==
    \E k \in 2..Len(buffer \o chunk) : (buffer \o chunk)[k] = "\n"

\* every listener registered at a call that raised was called for the image,
\* and the image's entry is in inline_images
RaisedCallContained(h, c) ==
    \E k \in 1..Len(h.inline_images) :
        /\ h.inline_images[k] = <<calls[c].original_path, calls[c].download_path>>
        /\ \A l \in 1..listeners_at[k] :
              \E d \in 1..Len(calls) :
                  /\ calls[d].listener = l
                  /\ calls[d].original_path = calls[c].original_path
                  /\ calls[d].download_path = calls[c].download_path

\* C5: when an inline-image listener raises during notification, every other
\* registered listener still receives the same (original path, staged path)
\* event, the inline_images (InlineImageMap) entry is kept, and later output
\* chunks are still processed.
C5_RaisingListenerContained ==
    /\ [](EXECUTION \in DOMAIN handlers =>
            \A c \in 1..Len(calls) :
                calls[c].raised => RaisedCallContained(handlers[EXECUTION], c))
    /\ [][(OnNextStep /\ SomeListenerRaised
           /\ HoldsLine(handlers[EXECUTION].last_buffer, stream'[Len(stream')]))
          => Len(passes') = Len(passes) + 1]_vars

\* the first listener raised, the second was called for the same image, and
\* a later chunk got its pass
C5_SecondListenerCalled ==
    /\ Len(calls) >= 2
    /\ calls[1].listener = 1
    /\ calls[1].raised
    /\ calls[2].listener = 2
    /\ calls[2].original_path = calls[1].original_path
    /\ Len(passes) >= 2
    /\ Len(handlers[EXECUTION].inline_images) >= 1

\* C6: when copying one resolved file into the staging folder fails, the file
\* is skipped (no prepared_files entry is recorded for it), the remaining
\* resolved files of the batch are still staged and returned, and the failure
\* does not propagate to the caller.
C6_CopyFailureSkipsFile ==
    /\ ~ret.raised
    /\ EXECUTION \in DOMAIN handlers =>
          /\ \A file \in unreadable : file \notin DOMAIN handlers[EXECUTION].prepared_files
          /\ (\E k \in 1..Len(passes) : passes[k] = FILE_V_O \o <<"\n">> \o FILE_W_O)
                 => FILE_W_O \in DOMAIN handlers[EXECUTION].prepared_files

\* the step is a call for an execution id that has no handler
UnknownIdStep ==
    /\ ret'.id \notin DOMAIN handlers
    /\ ret'.op \in {"get_downloadable_files", "subscribe_on_inline_images"}

\* C7: get_downloadable_files and subscribe_on_inline_images called with an
\* execution id that has no handler never fail: the first returns an empty
\* list, the second is a no-op, and neither changes the handler registry or
\* any handler's state.
C7_UnknownIdIsNoOp ==
    [][UnknownIdStep =>
          /\ ~ret'.raised
          /\ ret'.value = <<>>
          /\ UNCHANGED <<handlers, stream, closed, finished, staged, passes, calls,
                         copies, returned, listeners_at>>]_vars

\* subscribe_on_inline_images was called for the unknown id while the
\* execution's handler holds an image and a listener
C7_UnknownIdSubscribed ==
    /\ ret.op = "subscribe_on_inline_images"
    /\ ret.id = UNKNOWN_EXECUTION
    /\ EXECUTION \in DOMAIN handlers
    /\ Len(handlers[EXECUTION].inline_image_listeners) >= 1
    /\ Len(handlers[EXECUTION].inline_images) >= 1

\* C8: within one execution handler prepared_files (the StagedFileMap) is
\* injective: two different source paths, two of one base name from different
\* directories included, are staged under distinct paths, and staging one
\* never overwrites the staged copy of the other.
C8_StagedPathsDistinct ==
    /\ \A id \in DOMAIN handlers :
          \A f, g \in DOMAIN handlers[id].prepared_files :
              f # g => handlers[id].prepared_files[f] # handlers[id].prepared_files[g]
    /\ \A i, j \in 1..Len(copies) : i # j => copies[i][2] # copies[j][2]

\* /w/o and /v/o, of one base name, are both staged
C8_SameBaseNameStaged ==
    /\ EXECUTION \in DOMAIN handlers
    /\ DOMAIN handlers[EXECUTION].prepared_files = {FILE_W_O, FILE_V_O}
    /\ Len(copies) = 2

\* handler h has no generic and no inline-image declaration path
NoDeclarations(h) == h.result_files_paths = <<>> /\ h.inline_image_paths = <<>>

\* C9: a handler created for an execution whose generic and inline-image
\* declaration lists are both empty is inert: no staging folder is allocated,
\* no finish listener is registered, the output stream is not subscribed, and
\* in every later state its result list, prepared_files and inline_images
\* stay empty.
C9_NoDeclarationsInert ==
    \A id \in DOMAIN handlers :
        NoDeclarations(handlers[id]) =>
            /\ handlers[id].download_folder = <<>>
            /\ ~handlers[id].finish_listener
            /\ ~handlers[id].subscribed
            /\ handlers[id].result_files = <<>>
            /\ handlers[id].prepared_files = <<>>
            /\ handlers[id].inline_images = <<>>
            /\ staged = {}
            /\ passes = <<>>

\* an execution without declarations ran to its end: output that names a
\* file was delivered, a listener subscribed, the stream closed, it finished
C9_InertExecutionFinished ==
    /\ EXECUTION \in DOMAIN handlers
    /\ NoDeclarations(handlers[EXECUTION])
    /\ Len(stream) >= 1
    /\ stream[1] = FILE_W_O \o <<"\n">>
    /\ Len(handlers[EXECUTION].inline_image_listeners) >= 1
    /\ finished

\* the head of the worklist is longer than the items the model follows
ItemTooLong == output_patterns # <<>> /\ Len(Head(output_patterns)) > MaxItemLen

\* C10: for every declaration and every text block the worklist loop of
\* find_matching_files terminates: a call that entered the loop eventually
\* returns (or raises), unless an item outgrows the model's bound.
C10_LoopTerminates ==
    (pc = "loop") ~> (pc \in {"done", "raised"} \/ ItemTooLong)

\* a mapping, kept as a sequence of <<key, value>>, holds no key twice
KeysOnce(mapping) ==
    \A j, k \in 1..Len(mapping) : mapping[j][1] = mapping[k][1] => j = k

\* an absolute path, as normalization against the working directory leaves
\* it, that exists and is no directory
ResolvedFile(path) ==
    /\ path # <<>>
    /\ path[1] = "/"
    /\ normalize_path(path, WORKING_DIRECTORY) = path
    /\ path \in RegularFiles
    /\ path \notin Directories

\* the declarations and the text of the call the last operation made
LastCallPaths ==
    IF ret.op = "finish" THEN handlers[EXECUTION].result_files_paths
    ELSE handlers[EXECUTION].inline_image_paths

LastCallText ==
    IF ret.op = "finish" THEN Join(stream) ELSE passes[Len(passes)]

\* the last operation raised at the copy of a file it resolved
RaisedAtCopy ==
    LET correct == CorrectFiles(LastCallPaths, LastCallText, <<>>, staged)
    IN  /\ ~correct.raised
        /\ \E k \in 1..Len(correct.files) : correct.files[k] \in unreadable

\* C11: every key of a mapping _prepare_downloadable_files returned is a
\* normalized path that exists and is no directory, no mapping holds a key
\* twice, and a call raises only at the copy of a file it resolved: a missing
\* path, a directory or a declaration without a match fails no call
C11_ReturnedKeysResolved ==
    /\ \A n \in 1..Len(returned) :
          /\ KeysOnce(returned[n])
          /\ \A k \in 1..Len(returned[n]) : ResolvedFile(returned[n][k][1])
    /\ ret.raised => RaisedAtCopy

\* the finish listener returned for a literal path, a glob that also matches
\* that path and a directory, a missing path and a glob without a match
C11_MissingAndDirectoryOmitted ==
    /\ EXECUTION \in DOMAIN handlers
    /\ handlers[EXECUTION].output_files = <<G_O, G_GLOB_W, G_X, G_GLOB_Z>>
    /\ finished
    /\ ~ret.raised
    /\ returned = << <<<<FILE_W_O, PathJoin(DOWNLOAD_FOLDER, <<"o">>)>>,
                      <<FILE_W_P, PathJoin(DOWNLOAD_FOLDER, <<"p">>)>>>> >>

\* the source files one call of _prepare_downloadable_files resolves for the
\* inline-image declarations of handler h over the whole text delivered
OneShotResolved(h) ==
    Keys(prepare_downloadable_files(h.inline_image_paths, Join(stream), <<>>, {},
                                    unreadable).result)

\* C12: once the stream is closed, the source files the streaming flow
\* resolved over the chunks are the source files one call over the whole
\* text resolves for the same declarations
C12_StreamingEqualsOneShot ==
    (closed /\ EXECUTION \in DOMAIN handlers /\ handlers[EXECUTION].subscribed)
        => Keys(handlers[EXECUTION].inline_images) = OneShotResolved(handlers[EXECUTION])

\* the files the finish listener's call resolved (correct_files)
FinishResolved ==
    CorrectFiles(handlers[EXECUTION].result_files_paths, Join(stream), <<>>, staged).files

\* the resolved files that were not staged because create_unique_filename
\* finds no free name for them
NameExhausted ==
    {k \in 1..Len(FinishResolved) :
        /\ FinishResolved[k] \notin DOMAIN handlers[EXECUTION].prepared_files
        /\ DownloadFile(FinishResolved[k], staged) = <<>>}

\* C13: when the finish listener's call finds no unique staging name for a
\* file it resolved, that file is not copied and gets no prepared_files
\* entry, and every other file the call resolved is staged and returned
C13_OnlyExhaustedFileSkipped ==
    (ret.op = "finish" /\ handlers[EXECUTION].finish_listener /\ NameExhausted # {})
        => /\ \A k \in NameExhausted :
                 \A c \in 1..Len(copies) : copies[c][1] # FinishResolved[k]
           /\ returned # <<>>
           /\ \A k \in (1..Len(FinishResolved)) \ NameExhausted :
                 /\ FinishResolved[k] \in DOMAIN handlers[EXECUTION].prepared_files
                 /\ FinishResolved[k] \in Keys(returned[Len(returned)])

\* the length of the '#<digits>#' prefix an item has at its opening '#'
\* (0-based position opening), 0 when it has none
GroupPrefixLen(item, opening) ==
    LET runs == {n \in 1..Len(item) :
                    /\ opening + n + 2 <= Len(item)
                    /\ \A d \in 1..n : item[opening + 1 + d] \in Digits
                    /\ item[opening + n + 2] = "#"}
    IN  IF runs = {} THEN 0 ELSE (CHOOSE n \in runs : TRUE) + 2

\* the 0-based positions of the '#' that can close the directive of an item:
\* after the opening '#' and its group prefix, and not opening '#any_path'
Closings(item) ==
    LET opening == Find(item, "#", 0)
        prefix == GroupPrefixLen(item, opening)
        pattern_start == IF prefix = 0 THEN opening ELSE opening + prefix - 1
    IN  {i \in (pattern_start + 1)..(Len(item) - 1) :
            item[i + 1] = "#" /\ ~StartsWithAt(item, ANY_PATH, i)}

\* an item with an opening '#' and no closing one
Unterminated(item) == Contains(item, "#") /\ Closings(item) = {}

\* an iteration on an unterminated item raises nothing, pushes nothing and
\* emits the item as it is, or what the glob expander makes of the whole item
UnterminatedStep ==
    (pc = "popped" /\ pc' # "popped" /\ Unterminated(output_pattern))
        => /\ pc' = "loop"
           /\ output_patterns' = output_patterns
           /\ files' = files \o
                 (IF \A k \in 1..Len(output_pattern) : output_pattern[k] # "*"
                  THEN <<output_pattern>>
                  ELSE search_glob(output_pattern,
                                   ContainsSub(output_pattern, <<"*", "*">>), Listing))

\* C14: an item with an opening '#' and no closing '#' (a '#' that opens
\* '#any_path' closes nothing) is not dropped and raises nothing: without a
\* '*' it is emitted as it is, with one it goes whole to the glob expander
C14_UnterminatedEmitted == [][UnterminatedStep]_vars

\* '##any_path' was emitted as it is
C14_AnyPathClosesNothing ==
    /\ pc = "loop"
    /\ output_pattern = <<"#">> \o ANY_PATH
    /\ Unterminated(output_pattern)
    /\ files = <<output_pattern>>

\* an item with a directive: an opening '#' and a '#' that closes it
Terminated(item) == Contains(item, "#") /\ Closings(item) # {}

\* the items an iteration on a terminated item is to push: for each match of
\* the directive's regular expression in the text, the item with the span of
\* the directive, both '#' included, replaced by the text of the selected group
ItemsOfMatches(item, text) ==
    LET opening == Find(item, "#", 0)
        prefix == GroupPrefixLen(item, opening)
        closing == CHOOSE i \in Closings(item) : \A j \in Closings(item) : i <= j
        group == IF prefix = 0 THEN 0
                 ELSE ParseInt(SubSeq(item, opening + 2, opening + prefix - 1))
        body == SubSeq(item, (IF prefix = 0 THEN opening + 2 ELSE opening + prefix + 1),
                       closing)
        re == RegexPattern(body, opening)
        matches == FindIter(re, text)
    IN  [k \in 1..Len(matches) |->
            SubSeq(item, 1, opening) \o MatchGroup(re, text, matches[k], group)
                \o SubSeq(item, closing + 2, Len(item))]

\* an iteration on a terminated item emits nothing, and when it does not
\* raise it pushes one item per match
TerminatedStep ==
    (pc = "popped" /\ pc' # "popped" /\ Terminated(output_pattern))
        => /\ files' = files
           /\ pc' = "loop" =>
                 output_patterns' = output_patterns
                                        \o ItemsOfMatches(output_pattern, script_output)

\* C15: on an item with a terminated directive, an iteration that does not
\* raise pushes exactly one new item for every non-overlapping match of the
\* directive's regular expression in the text, the item with the span from
\* the opening '#' through the closing '#' replaced by the text of the
\* selected group (group 0 without a '#<digits>#' prefix), and the item
\* itself is never emitted
C15_OneItemPerMatch == [][TerminatedStep]_vars

\* '#1#(foo)-(bar)#' on 'foo-bar' pushed 'foo'
C15_FirstGroupOfFooBar ==
    /\ pc = "loop"
    /\ output_pattern = PATTERN_FOO
    /\ script_output = TEXT_FOO_BAR
    /\ output_patterns = <<<<"f", "o", "o">>>>
    /\ files = <<>>

\* a declared path without '*' and without '#'
LiteralPath(path) == \A k \in 1..Len(path) : path[k] \notin {"*", "#"}

\* what a literal path is to resolve to: the path itself when absolute, else
\* the path under the working directory, when that is a regular file
LiteralResolved(path) ==
    LET absolute == IF path[1] = "/" THEN path ELSE WORKING_DIRECTORY \o <<"/">> \o path
    IN  IF absolute \in RegularFiles THEN <<absolute>> ELSE <<>>

\* C16: for every declared literal path and the text delivered so far,
\* find_matching_files yields the path alone and resolution accepts exactly
\* its normalized path when that is a regular file, nothing when it is
\* missing or a directory; the finish listener's call for a single literal
\* declaration returns that and nothing else
C16_LiteralResolvesToItself ==
    \A id \in DOMAIN handlers :
        LET h == handlers[id]
        IN  /\ \A k \in 1..Len(h.result_files_paths) :
                  LiteralPath(h.result_files_paths[k]) =>
                      /\ find_matching_files(h.result_files_paths[k], Join(stream), Listing)
                             = [raised |-> FALSE, files |-> <<h.result_files_paths[k]>>]
                      /\ CorrectFiles(<<h.result_files_paths[k]>>, Join(stream), <<>>, staged)
                             = [raised |-> FALSE,
                                files |-> LiteralResolved(h.result_files_paths[k])]
            /\ (/\ ret.op = "finish"
                /\ ~ret.raised
                /\ Len(h.result_files_paths) = 1
                /\ LiteralPath(h.result_files_paths[1]))
                   => /\ returned # <<>>
                      /\ [k \in 1..Len(returned[Len(returned)]) |->
                             returned[Len(returned)][k][1]]
                            = LiteralResolved(h.result_files_paths[1])

\* the finish listener returned /w/o for the declaration 'o' over a text
\* that names another file
C16_RelativeLiteralResolved ==
    /\ EXECUTION \in DOMAIN handlers
    /\ handlers[EXECUTION].output_files = <<G_O>>
    /\ stream = <<FILE_U_O>>
    /\ ret.op = "finish"
    /\ returned = << <<<<FILE_W_O, PathJoin(DOWNLOAD_FOLDER, <<"o">>)>>>> >>

\* a step of the streaming flow (on_next or on_close) leaves every handler's
\* result_files as it is
StreamingKeepsResultFiles ==
    (stream' # stream \/ closed' # closed)
        => \A id \in DOMAIN handlers : handlers'[id].result_files = handlers[id].result_files

\* the step of the finish flow leaves inline_images as it is and calls no
\* listener
FinishKeepsInlineImages ==
    finished' # finished
        => /\ calls' = calls
           /\ \A id \in DOMAIN handlers :
                 handlers'[id].inline_images = handlers[id].inline_images

\* what the caller does to the list it was returned changes no handler
CallerKeepsHandlers ==
    (ret.op = "get_downloadable_files" /\ ret'.op = "caller_append")
        => handlers' = handlers

\* C17: the streaming flow never changes result_files, the finish flow never
\* changes inline_images and calls no inline-image listener, so before the
\* finish listener fired get_downloadable_files returns the empty list; and
\* the list it returns is a copy: the caller's change to it changes no
\* handler's list
C17_FlowsKeepEachOthersState ==
    /\ [][StreamingKeepsResultFiles /\ FinishKeepsInlineImages /\ CallerKeepsHandlers]_vars
    /\ [](~finished => \A id \in ExecutionIds : get_downloadable_files(id) = <<>>)

\* after both flows resolved /w/o and a listener was called, the caller
\* appended to the list it was returned and the handler's list is as it was
C17_CallerChangedItsCopy ==
    /\ EXECUTION \in DOMAIN handlers
    /\ finished
    /\ calls # <<>>
    /\ handlers[EXECUTION].inline_images # <<>>
    /\ handlers[EXECUTION].result_files = <<PathJoin(DOWNLOAD_FOLDER, <<"o">>)>>
    /\ ret.op = "caller_append"
    /\ ret.id = EXECUTION
    /\ ret.value = <<PathJoin(DOWNLOAD_FOLDER, <<"o">>), CALLER_ITEM>>

\* a declaration counts as generic: a plain string, or a record of another
\* type than inline-image; as inline-image: a record of that type
GenericDeclaration(d) ==
    d.kind = "str" \/ (d.kind = "dict" /\ d.type # INLINE_IMAGE_TYPE)

InlineImageDeclaration(d) == d.kind = "dict" /\ d.type = INLINE_IMAGE_TYPE

\* a declaration has a path to resolve: a plain string that is not empty, a
\* record with a path that is not blank
HasPath(d) ==
    IF d.kind = "str" THEN d.path # <<>>
    ELSE /\ d.path # NONE
         /\ \E k \in 1..Len(d.path) : d.path[k] # " "

\* C18 as stated: a handler has a finish listener exactly when it has a
\* generic declaration, and is subscribed to the stream exactly when it has
\* an inline-image declaration
C18_GatedByDeclarations ==
    \A id \in DOMAIN handlers :
        LET h == handlers[id]
        IN  /\ h.finish_listener <=>
                  \E k \in 1..Len(h.output_files) : GenericDeclaration(h.output_files[k])
            /\ h.subscribed <=>
                  \E k \in 1..Len(h.output_files) : InlineImageDeclaration(h.output_files[k])

\* C18: a handler has a finish listener exactly when it has a generic
\* declaration with a path, and is subscribed to the stream exactly when it
\* has an inline-image declaration with a path; a plain string and a record
\* of another type than inline-image are generic, a record of type
\* inline-image is inline-image only
C18_GatedByDeclarationsWithPath ==
    \A id \in DOMAIN handlers :
        LET h == handlers[id]
        IN  /\ h.finish_listener <=>
                  \E k \in 1..Len(h.output_files) :
                      GenericDeclaration(h.output_files[k]) /\ HasPath(h.output_files[k])
            /\ h.subscribed <=>
                  \E k \in 1..Len(h.output_files) :
                      InlineImageDeclaration(h.output_files[k]) /\ HasPath(h.output_files[k])

\* a record of type 'file' alone: a finish listener and no subscription
C18_RecordOfOtherTypeIsGeneric ==
    /\ EXECUTION \in DOMAIN handlers
    /\ handlers[EXECUTION].output_files = <<G_V_O>>
    /\ handlers[EXECUTION].finish_listener
    /\ ~handlers[EXECUTION].subscribed

\* the text the first k chunks make
TextOfChunks(k) == Join(SubSeq(stream, 1, k))

\* how much of that text lies before the end of its last newline
CutAt(k) ==
    LET text == TextOfChunks(k)
    IN  IF \E i \in 1..Len(text) : text[i] = "\n"
        THEN CHOOSE i \in 1..Len(text) :
                 text[i] = "\n" /\ \A j \in (i + 1)..Len(text) : text[j] # "\n"
        ELSE 0

\* for each of the first k chunks that holds a newline, in order: the text
\* between the newline the chunks before were cut at and its own last newline
RECURSIVE CutPortions(_)
CutPortions(k) ==
    IF k = 0 THEN <<>>
    ELSE CutPortions(k - 1)
         \o (IF CutAt(k) > CutAt(k - 1)
             THEN <<SubSeq(TextOfChunks(k), CutAt(k - 1) + 1, CutAt(k) - 1)>>
             ELSE <<>>)

\* the text after the last newline of the whole text
PartialLine == SubSeq(Join(stream), CutAt(Len(stream)) + 1, Len(Join(stream)))

\* the members of a sequence of texts that are not empty, in order
RECURSIVE NonEmpty(_)
NonEmpty(texts) ==
    IF texts = <<>> THEN <<>>
    ELSE (IF Head(texts) = <<>> THEN <<>> ELSE <<Head(texts)>>) \o NonEmpty(Tail(texts))

\* each text followed by a newline, all in one
RECURSIVE JoinLines(_)
JoinLines(texts) ==
    IF texts = <<>> THEN <<>>
    ELSE Head(texts) \o <<"\n">> \o JoinLines(Tail(texts))

\* C19: however the text is split into chunks, after every step the buffer
\* holds no newline; the portions cut at the newlines, each followed by its
\* newline, and the partial line after them make exactly the text delivered;
\* the passes ran over exactly the portions that are not empty, in order, and
\* after the close over the partial line, which the buffer holds until then
C19_NothingLostOrDuplicated ==
    \A id \in DOMAIN handlers :
        LET h == handlers[id]
            portions == CutPortions(Len(stream))
        IN  h.subscribed =>
                /\ \A i \in 1..Len(h.last_buffer) : h.last_buffer[i] # "\n"
                /\ JoinLines(portions) \o PartialLine = Join(stream)
                /\ h.last_buffer = IF closed THEN <<>> ELSE PartialLine
                /\ passes = NonEmpty(portions)
                                \o (IF closed THEN NonEmpty(<<PartialLine>>) ELSE <<>>)

\* 'a', 'a\n' and '\na' and then the close: a pass over 'aa', none for the
\* empty portion of the third chunk, and a pass over 'a' at the close
C19_EmptyPortionSkipped ==
    /\ stream = << <<"a">>, <<"a", "\n">>, <<"\n", "a">> >>
    /\ closed
    /\ passes = << <<"a", "a">>, <<"a">> >>

\* the files the finish listener of handler h resolved, when it ran and all
\* of them could be copied; none otherwise
ResolvedAtFinish(h) ==
    LET correct == CorrectFiles(h.result_files_paths, Join(stream), <<>>, staged).files
    IN  IF finished /\ h.finish_listener
           /\ \A k \in 1..Len(correct) : correct[k] \notin unreadable
        THEN {correct[k] : k \in 1..Len(correct)}
        ELSE {}

\* C20: every inline_images entry is the prepared_files entry of its source
\* file, every element of result_files is the staged path of a
\* prepared_files entry, and a source file both flows resolved was copied
\* once, to the staged path that both inline_images and result_files hold
C20_FlowsAgreeWithPreparedFiles ==
    \A id \in DOMAIN handlers :
        LET h == handlers[id]
        IN  /\ \A k \in 1..Len(h.inline_images) :
                  /\ h.inline_images[k][1] \in DOMAIN h.prepared_files
                  /\ h.inline_images[k][2] = h.prepared_files[h.inline_images[k][1]]
            /\ \A k \in 1..Len(h.result_files) :
                  \E file \in DOMAIN h.prepared_files :
                      h.result_files[k] = h.prepared_files[file]
            /\ \A file \in Keys(h.inline_images) \cap ResolvedAtFinish(h) :
                  /\ \E k \in 1..Len(h.result_files) :
                        h.result_files[k] = h.prepared_files[file]
                  /\ \E c \in 1..Len(copies) :
                        /\ copies[c] = <<file, h.prepared_files[file]>>
                        /\ \A d \in 1..Len(copies) : copies[d][1] = file => d = c

\* the streaming flow and the finish flow both resolved /w/o: one copy, and
\* inline_images and result_files both hold its staged path
C20_BothFlowsOneStagedPath ==
    /\ EXECUTION \in DOMAIN handlers
    /\ finished
    /\ FILE_W_O \in Keys(handlers[EXECUTION].inline_images)
    /\ FILE_W_O \in ResolvedAtFinish(handlers[EXECUTION])
    /\ FILE_V_O \notin Keys(handlers[EXECUTION].inline_images)
    /\ handlers[EXECUTION].result_files
           = <<handlers[EXECUTION].prepared_files[FILE_W_O],
               handlers[EXECUTION].prepared_files[FILE_V_O]>>


====
